---------------------------- MODULE Spec2Model ----------------------------
(***************************************************************************)
(* zkArchive backend: the metadata store (db.js) and the HTTP server       *)
(* (server.js).  One server process, one in-memory cache `archives`, one   *)
(* backing file data/archives.json, one upload directory.                  *)
(*                                                                         *)
(* Every request is handled to completion before the next one is looked at *)
(* (the handlers are synchronous), so one action is one request travelling *)
(* through the middleware stack: cors -> express.json -> route handler ->  *)
(* fallback 404, with errors going to the global error handler.            *)
(*                                                                         *)
(* Spec is that server.  SpecConcurrent lets uploads overlap while multer  *)
(* receives them; SpecTwo runs a second process on the same files.         *)
(***************************************************************************)
EXTENDS Integers, Sequences, FiniteSets, TLC

(***************************************************************************)
(* Bounds of the model.                                                    *)
(***************************************************************************)
\* uuidv4() is called at most this many times in one run (one call per
\* stored file name, one per record id).
MaxUuid == 4
\* The process is restarted at most this many times.
MaxRestarts == 1

(***************************************************************************)
(* JavaScript values of form fields and query parameters.  A string is a   *)
(* sequence of one-character strings, so that toLowerCase can be computed. *)
(* A field sent twice (or as name[]) reaches the handler as an array.      *)
(***************************************************************************)
Str(s) == [t |-> "string", v |-> s]
Undefined == [t |-> "undefined", v |-> <<>>]
Null == [t |-> "null", v |-> <<>>]
Arr(s) == [t |-> "array", v |-> s]

\* JavaScript truthiness of such a value: undefined, null and "" are falsy.
Truthy(x) == \/ x.t = "array"
             \/ x.t = "string" /\ x.v # <<>>

\* typeof x
TypeOf(x) == CASE x.t = "string" -> "string"
               [] x.t = "undefined" -> "undefined"
               [] OTHER -> "object"

\* a || b
OrElse(a, b) == IF Truthy(a) THEN a ELSE b

LowerChar(c) == CASE c = "A" -> "a"
                  [] c = "B" -> "b"
                  [] c = "C" -> "c"
                  [] c = "D" -> "d"
                  [] OTHER -> c

\* String.prototype.toLowerCase, character by character.
toLowerCase(s) == [i \in DOMAIN s |-> LowerChar(s[i])]

(***************************************************************************)
(* CORS configuration (server.js 20-35).                                   *)
(***************************************************************************)
defaultAllowedOrigins ==
    << "https://zkarchive.us", "https://app.zkarchive.us", "https://useodds.fun",
       "http://localhost:3000", "http://localhost:5173" >>

\* process.env.CORS_ORIGINS in the model, already split on ",": the value
\* " https://extra.example, ,http://localhost:3000".  A piece is [raw, trimmed]:
\* the text and what String.trim makes of it.  <<>> stands for the unset
\* variable.
CorsOriginsEnv ==
    << [raw |-> " https://extra.example", trimmed |-> "https://extra.example"],
       [raw |-> " ", trimmed |-> ""],
       [raw |-> "http://localhost:3000", trimmed |-> "http://localhost:3000"] >>

Range(s) == { s[i] : i \in DOMAIN s }

RECURSIVE Dedup(_)
\* [...new Set(list)]: the first occurrence of every element, in order.
Dedup(s) == IF s = <<>> THEN <<>>
            ELSE LET rest == Dedup(SubSeq(s, 1, Len(s) - 1))
                     last == s[Len(s)]
                 IN  IF last \in Range(rest) THEN rest ELSE Append(rest, last)

\* The allow-list computed at startup from the environment.
AllowedOriginsOf(env) ==
    IF env = <<>> THEN defaultAllowedOrigins
    ELSE LET mapped == [i \in DOMAIN env |-> env[i].trimmed]
             extra == SelectSeq(mapped, LAMBDA o : o # "")
         IN  Dedup(defaultAllowedOrigins \o extra)

allowedOrigins == AllowedOriginsOf(CorsOriginsEnv)

\* The Origin header of a request: absent, or present with a value.
NoOrigin == [present |-> FALSE, value |-> ""]
Origin(s) == [present |-> TRUE, value |-> s]

Origins == { NoOrigin, Origin(""), Origin("http://localhost:3000"),
             Origin("https://extra.example"), Origin("https://evil.example") }
\* The origins tried together with every combination of the other inputs.
FewOrigins == { NoOrigin, Origin("https://evil.example") }


(***************************************************************************)
(* The metadata store (db.js).  The backing file DB_FILE is absent, or     *)
(* holds text.  Text is modelled by what JSON.parse makes of it: "garbage" *)
(* does not parse, "nonarray" parses to something that is not an array,    *)
(* "array" parses to an array whose elements are in `data`.                *)
(* An element is a JSON object: its key/value pairs in the order in which  *)
(* JSON.stringify wrote them.                                              *)
(***************************************************************************)
AbsentFile == [kind |-> "absent", data |-> <<>>]
GarbageFile == [kind |-> "garbage", data |-> <<>>]
NonArrayFile == [kind |-> "nonarray", data |-> <<>>]
ArrayFile(objs) == [kind |-> "array", data |-> objs]

\* The key/value pair JSON.stringify writes for a property holding a form
\* field: none when the value is undefined.
JsonPair(key, value) == IF value = Undefined THEN <<>> ELSE << <<key, value>> >>

\* JSON.stringify of one archive record: own properties in insertion order
\* (the order of the object literal in the upload handler); null stays null,
\* a property whose value is undefined is left out.
JsonOfArchive(a) ==
    << <<"id", a.id>>, <<"name", a.name>>, <<"size", a.size>>,
       <<"mimeType", a.mimeType>> >>
    \o JsonPair("hash", a.hash)
    \o JsonPair("walletAddress", a.walletAddress)
    \o << <<"storagePath", a.storagePath>>, <<"createdAt", a.createdAt>> >>

\* The value of `key` in a parsed JSON object: undefined when it has no such
\* property.
JsonGet(obj, key) ==
    IF \E i \in DOMAIN obj : obj[i][1] = key
    THEN obj[CHOOSE i \in DOMAIN obj : obj[i][1] = key][2]
    ELSE Undefined

\* JSON.parse of one element written by JsonOfArchive.
ArchiveOfJson(obj) ==
    [ id |-> JsonGet(obj, "id"), name |-> JsonGet(obj, "name"),
      size |-> JsonGet(obj, "size"), mimeType |-> JsonGet(obj, "mimeType"),
      hash |-> JsonGet(obj, "hash"), walletAddress |-> JsonGet(obj, "walletAddress"),
      storagePath |-> JsonGet(obj, "storagePath"), createdAt |-> JsonGet(obj, "createdAt") ]

\* JSON.stringify(data, null, 2) of the whole sequence.
JsonStringify(data) == [i \in DOMAIN data |-> JsonOfArchive(data[i])]

\* The outcomes of fs.writeFileSync(DB_FILE, text): "ok" writes the text;
\* "denied" throws before the file is touched; "partial" throws after the
\* file was truncated and only part of the text was written.
WriteOutcomes == {"ok", "denied", "partial"}

\* A write that puts the whole text in the file even when it reports a failure.
writeFileSync_alwaysWrites(file, text, outcome) == ArrayFile(text)

writeFileSync(file, text, outcome) ==
    CASE outcome = "ok" -> ArrayFile(text)
      [] outcome = "denied" -> file
      [] OTHER -> GarbageFile

\* A load that returns an empty sequence whatever the backing file holds.
loadDb_empty(file, outcome) == [ value |-> <<>>, file |-> file ]

\* A load that replaces a file it cannot use by one holding an empty array.
loadDb_rewritesUnreadable(file, outcome) ==
    IF file.kind = "array"
    THEN [ value |-> [i \in DOMAIN file.data |-> ArchiveOfJson(file.data[i])], file |-> file ]
    ELSE [ value |-> <<>>, file |-> ArrayFile(<<>>) ]

\* loadDb(): the returned sequence and the backing file afterwards.
\* `outcome` is the outcome of the write that creates an absent file.
loadDb(file, outcome) ==
    CASE file.kind = "absent" ->
            [ value |-> <<>>, file |-> writeFileSync(file, JsonStringify(<<>>), outcome) ]
      [] file.kind = "garbage" -> [ value |-> <<>>, file |-> file ]
      [] file.kind = "nonarray" -> [ value |-> <<>>, file |-> file ]
      [] OTHER ->
            [ value |-> [i \in DOMAIN file.data |-> ArchiveOfJson(file.data[i])],
              file |-> file ]

\* A save that adds the newest record at the end of what the file holds, in
\* the place of rewriting the file.
saveDb_append(file, data, outcome) ==
    writeFileSync(file,
                  (IF file.kind = "array" THEN file.data ELSE <<>>) \o <<JsonOfArchive(Head(data))>>,
                  outcome)

\* A save that keeps the records the file holds and the data lacks, behind
\* the data.
saveDb_merge(file, data, outcome) ==
    writeFileSync(file,
                  JsonStringify(data) \o
                      (IF file.kind = "array"
                       THEN SelectSeq(file.data, LAMBDA o : \A i \in DOMAIN data : JsonOfArchive(data[i]) # o)
                       ELSE <<>>),
                  outcome)

\* saveDb(data): the backing file afterwards; a failed write is logged and
\* swallowed.
saveDb(file, data, outcome) == writeFileSync(file, JsonStringify(data), outcome)

(***************************************************************************)
(* Requests.                                                               *)
(***************************************************************************)
\* (parseInt(process.env.MAX_FILE_SIZE_MB, 10) || 100) with the variable unset.
DefaultMaxFileSizeMb == 100
fileSizeLimit == DefaultMaxFileSizeMb * 1024 * 1024

\* The file part of a multipart request, or its absence.
NoFile == [present |-> FALSE, originalname |-> "", mimetype |-> "", size |-> 0]
NoteFile == [present |-> TRUE, originalname |-> "note.txt", mimetype |-> "text/plain", size |-> 10]
BlankFile == [present |-> TRUE, originalname |-> "", mimetype |-> "", size |-> 0]
BigFile == [present |-> TRUE, originalname |-> "big.bin",
            mimetype |-> "application/octet-stream", size |-> fileSizeLimit + 1]
FileInputs == { NoFile, NoteFile, BlankFile, BigFile }

\* path.extname on the file names of the model.
extname(name) == CASE name = "note.txt" -> ".txt"
                   [] name = "big.bin" -> ".bin"
                   [] OTHER -> ""

HashInputs == { Undefined, Str(<<>>), Arr(<<"h", "1">>), Str(<<"h", "1">>) }
WalletInputs == { Undefined, Str(<<>>), Str(<<"A", "b">>), Arr(<<"A", "b">>) }
WalletQueries == { Undefined, Str(<<>>), Str(<<"a", "B">>), Str(<<"c", "D">>), Arr(<<"a", "B">>) }

Methods == { "GET", "POST", "OPTIONS" }
Paths == { "/health", "/api/upload", "/api/files", "/api/files/:id", "/uploads/:name", "/nope" }

\* UUIDs are numbered in the order in which they are drawn.
Uuids == 1 .. (MaxUuid + 2)
Extensions == { "", ".txt" }
FileNames == [ uuid : 1 .. 2, ext : Extensions ]
NoName == [uuid |-> 0, ext |-> ""]

\* A request with every optional part absent.
BaseReq(method, path, origin) ==
    [ method |-> method, path |-> path, origin |-> origin, jsonError |-> FALSE,
      id |-> 0, name |-> NoName, wallet |-> Undefined,
      file |-> NoFile, hash |-> Undefined, walletAddress |-> Undefined ]

PlainReqs == { BaseReq("GET", p, o) : p \in Paths, o \in Origins }
               \cup { BaseReq(m, p, o) : m \in Methods, p \in Paths, o \in FewOrigins }
\* A request whose JSON body express.json cannot parse, or finds too large.
JsonErrorReqs == { [BaseReq(m, p, o) EXCEPT !.jsonError = TRUE] :
                     m \in {"GET", "POST"}, p \in Paths, o \in FewOrigins }
\* Uploads: the note with every hash and wallet address, every file with
\* every hash, and every file from every origin.
UploadReqs == { [BaseReq("POST", "/api/upload", NoOrigin) EXCEPT !.file = NoteFile, !.hash = h, !.walletAddress = w] :
                  h \in HashInputs, w \in WalletInputs }
              \cup { [BaseReq("POST", "/api/upload", NoOrigin) EXCEPT !.file = f, !.hash = h] :
                  f \in FileInputs, h \in HashInputs }
              \cup { [BaseReq("POST", "/api/upload", o) EXCEPT !.file = f, !.hash = Str(<<"h", "1">>)] :
                  o \in Origins, f \in FileInputs }
ListReqs == { [BaseReq("GET", "/api/files", o) EXCEPT !.wallet = w] : o \in FewOrigins, w \in WalletQueries }
GetReqs == { [BaseReq("GET", "/api/files/:id", o) EXCEPT !.id = i] : o \in FewOrigins, i \in Uuids }
StaticReqs == { [BaseReq(m, "/uploads/:name", o) EXCEPT !.name = n] :
                  m \in {"GET", "POST"}, o \in FewOrigins, n \in FileNames }
Requests == PlainReqs \cup JsonErrorReqs \cup UploadReqs \cup ListReqs \cup GetReqs \cup StaticReqs

(***************************************************************************)
(* State.                                                                  *)
(***************************************************************************)
VARIABLES
    archives,        \* the in-memory cache: archive records, newest first
    disk,            \* the backing file data/archives.json
    uploads,         \* the names of the files in the upload directory
    uuidSeq,         \* how many UUIDs uuidv4 has returned so far
    clock,           \* the server clock: the number of readings taken by uploads
    startedAt,       \* the clock when the running process started
    runs,            \* how many times the process has been started
    startFile,       \* the backing file as loadDb found it when the running process started
    loaded,          \* what loadDb returned when the running process started
    created,         \* the archives of the 201 responses of this process, oldest first
    past,            \* the archives of the 201 responses of earlier processes, oldest first
    synced,          \* the sequence loadDb last returned or saveDb last wrote without failing
    inflight,        \* the uploads multer is still receiving: [req, filename]
    peer,            \* a second server process on the same files: its own variables
    resp             \* the response to the last request

vars == << archives, disk, uploads, uuidSeq, clock, startedAt,
           runs, startFile, loaded, created, past, synced, inflight, peer, resp >>

Response(status, body) == [status |-> status, body |-> body]
NoResponse == Response(0, [none |-> TRUE])

\* A generator that repeats itself: every other value has been drawn before.
uuidv4_repeat(n) == (n % 2) + 1

\* uuidv4() when n UUIDs have been drawn: a value none of them has.
uuidv4(n) == n + 1

(***************************************************************************)
(* Middleware and handlers.  A handler's result is an outcome: the         *)
(* response and the values of the variables a request can change.          *)
(***************************************************************************)
\* The outcome of a request that changes nothing and is answered with r.
Keep(r) ==
    [ resp |-> r, archives |-> archives, disk |-> disk, uploads |-> uploads,
      uuidSeq |-> uuidSeq, clock |-> clock, created |-> created, synced |-> synced ]

CorsError == "Not allowed by CORS"

\* A callback that answers callback(null, false) in the place of the error:
\* cors() then sets no header and calls next().
corsOrigin_noError(origin) == ""

\* The origin callback given to cors(): "" for callback(null, true), or the
\* message of the error it passes on.
corsOrigin(origin) ==
    IF ~origin.present \/ origin.value = "" THEN ""
    ELSE IF origin.value \in Range(allowedOrigins) THEN ""
    ELSE CorsError

\* An error handler without the branch for the CORS error.
ErrorHandler_always500(message) == Response(500, [error |-> "Internal server error"])

\* The global error handler.
ErrorHandler(message) ==
    IF message = CorsError
    THEN Response(403, [error |-> "CORS blocked"])
    ELSE Response(500, [error |-> "Internal server error"])

\* Fallback 404 for unknown routes.
NotFoundHandler == Response(404, [error |-> "Not found"])

\* A health body without the uptime.
HealthHandler_noUptime == Response(200, [status |-> "ok", timestamp |-> clock])

\* GET /health
HealthHandler ==
    Response(200, [status |-> "ok", uptime |-> clock - startedAt, timestamp |-> clock])

\* The callback of archives.filter in GET /api/files.
WalletMatches(a, wallet) ==
    toLowerCase(OrElse(a.walletAddress, Str(<<>>)).v) = toLowerCase(wallet.v)

\* Whether the filter callback throws a TypeError: it runs once per record,
\* and calls toLowerCase on the record's walletAddress and on the query
\* value, neither of which has that method when it is an array.
FilterThrows(wallet) ==
    /\ archives # <<>>
    /\ \/ wallet.t # "string"
       \/ \E i \in DOMAIN archives : archives[i].walletAddress.t = "array"

\* A list handler that answers from a fresh read of the backing file in the
\* place of the in-memory cache.
ListHandler_fromDisk(req) == Response(200, [items |-> loadDb(disk, "ok").value])

\* GET /api/files
ListHandler(req) ==
    IF Truthy(req.wallet)
    THEN IF FilterThrows(req.wallet)
         THEN Response(500, [error |-> "Internal server error"])
         ELSE Response(200, [items |-> SelectSeq(archives, LAMBDA a : WalletMatches(a, req.wallet))])
    ELSE Response(200, [items |-> archives])

\* A search that compares the stored file's UUID in the place of the id.
FindIndex_byStoragePath(id) ==
    IF \E i \in DOMAIN archives : archives[i].storagePath.uuid = id
    THEN CHOOSE i \in DOMAIN archives : archives[i].storagePath.uuid = id
    ELSE 0

\* archives.find((a) => a.id === id): the index of the first match, or 0.
FindIndex(id) ==
    IF \E i \in DOMAIN archives : archives[i].id = id
    THEN CHOOSE i \in DOMAIN archives :
            /\ archives[i].id = id
            /\ \A j \in 1 .. (i - 1) : archives[j].id # id
    ELSE 0

\* GET /api/files/:id
GetHandler(req) ==
    IF FindIndex(req.id) = 0
    THEN Response(404, [error |-> "Archive not found"])
    ELSE Response(200, [archive |-> archives[FindIndex(req.id)]])

\* The filename function of multer.diskStorage.
StorageFilename(uuid, file) == [uuid |-> uuid, ext |-> extname(file.originalname)]

\* The archive object with walletAddress stored as received, without "|| null".
NewArchive_rawWallet(id, file, filename, hash, walletAddress, now) ==
    [ id |-> id,
      name |-> IF file.originalname # "" THEN file.originalname ELSE "encrypted-file",
      size |-> file.size,
      mimeType |-> IF file.mimetype # "" THEN file.mimetype ELSE "application/octet-stream",
      hash |-> hash,
      walletAddress |-> walletAddress,
      storagePath |-> filename,
      createdAt |-> now ]

\* The archive object built by the upload handler.
NewArchive(id, file, filename, hash, walletAddress, now) ==
    [ id |-> id,
      name |-> IF file.originalname # "" THEN file.originalname ELSE "encrypted-file",
      size |-> file.size,
      mimeType |-> IF file.mimetype # "" THEN file.mimetype ELSE "application/octet-stream",
      hash |-> hash,
      walletAddress |-> OrElse(walletAddress, Null),
      storagePath |-> filename,
      createdAt |-> now ]

\* An assignment archives = [archive] in the place of unshift.
unshift_overwrite(seq, archive) == <<archive>>

\* archives.push(archive) in the place of unshift.
unshift_push(seq, archive) == Append(seq, archive)

\* An insertion that keeps the sequence in the order in which the files
\* began to arrive (the order of the stored file names), latest first.
unshift_byArrival(seq, archive) ==
    SelectSeq(seq, LAMBDA a : a.storagePath.uuid > archive.storagePath.uuid)
    \o <<archive>>
    \o SelectSeq(seq, LAMBDA a : a.storagePath.uuid <= archive.storagePath.uuid)

\* archives.unshift(archive)
unshift(seq, archive) == <<archive>> \o seq

\* The validation of the hash field without its typeof test.
HashRejected_noTypeof(hash) == ~Truthy(hash)

\* The validation of the hash field: TRUE when the request is rejected.
HashRejected(hash) == ~Truthy(hash) \/ TypeOf(hash) # "string"

\* The route handler of POST /api/upload, run when multer has received the
\* whole request: `filename` is the name under which multer stored the file
\* (req.file.filename) and `drawn` is how many UUIDs have been drawn so far.
\* The handler is synchronous: validation, unshift, saveDb and the response
\* happen in one step.
HandleUpload(req, filename, drawn, outcome) ==
    IF ~req.file.present
    THEN [ Keep(Response(400, [error |-> "File is required"])) EXCEPT !.uuidSeq = drawn ]
    ELSE IF HashRejected(req.hash)
    THEN [ Keep(Response(400, [error |-> "Field 'hash' is required"])) EXCEPT !.uuidSeq = drawn ]
    ELSE LET archive == NewArchive(uuidv4(drawn), req.file, filename,
                                   req.hash, req.walletAddress, clock)
             next == unshift(archives, archive)
         IN  [ resp |-> Response(201, [success |-> TRUE, archive |-> archive]),
               archives |-> next,
               disk |-> saveDb(disk, next, outcome),
               uploads |-> uploads,
               uuidSeq |-> drawn + 1,
               clock |-> clock + 1,
               created |-> Append(created, archive),
               synced |-> IF outcome = "ok" THEN next ELSE synced ]

\* POST /api/upload with nothing else happening in between:
\* upload.single("file") receives the request and stores the file, then the
\* handler runs.
UploadHandler(req, outcome) ==
    IF ~req.file.present
    THEN HandleUpload(req, NoName, uuidSeq, outcome)
    ELSE LET filename == StorageFilename(uuidv4(uuidSeq), req.file)
         IN  IF req.file.size > fileSizeLimit
             THEN \* multer removes the truncated file and passes LIMIT_FILE_SIZE on
                  [ Keep(ErrorHandler("File too large")) EXCEPT !.uuidSeq = uuidSeq + 1 ]
             ELSE [ HandleUpload(req, filename, uuidSeq + 1, outcome)
                      EXCEPT !.uploads = uploads \cup {filename} ]

\* express.static(UPLOAD_DIR) mounted on /uploads: serves an existing file
\* to a GET, and calls next() otherwise.
StaticHandler(req) ==
    IF req.method = "GET" /\ req.name \in uploads
    THEN Response(200, [file |-> req.name])
    ELSE NotFoundHandler

\* The route a request's method and path select, in the order of app.get,
\* app.post and app.use in server.js.
Route(req) ==
    CASE req.method = "GET" /\ req.path = "/health" -> "health"
      [] req.method = "POST" /\ req.path = "/api/upload" -> "upload"
      [] req.method = "GET" /\ req.path = "/api/files" -> "list"
      [] req.method = "GET" /\ req.path = "/api/files/:id" -> "get"
      [] req.method # "OPTIONS" /\ req.path = "/uploads/:name" -> "static"
      [] OTHER -> "fallback"

\* The routes, for a request that has passed cors and express.json.
Router(req, outcome) ==
    CASE Route(req) = "health" -> Keep(HealthHandler)
      [] Route(req) = "upload" -> UploadHandler(req, outcome)
      [] Route(req) = "list" -> Keep(ListHandler(req))
      [] Route(req) = "get" -> Keep(GetHandler(req))
      [] Route(req) = "static" -> Keep(StaticHandler(req))
      [] OTHER -> Keep(NotFoundHandler)

\* The whole middleware stack: cors (which answers a preflight itself),
\* express.json, the routes; an error goes to the global error handler.
Serve(req, outcome) ==
    IF corsOrigin(req.origin) # ""
    THEN Keep(ErrorHandler(corsOrigin(req.origin)))
    ELSE IF req.method = "OPTIONS"
    THEN Keep(Response(204, [empty |-> TRUE]))
    ELSE IF req.jsonError
    THEN Keep(ErrorHandler("Unexpected token in JSON"))
    ELSE Router(req, outcome)

(***************************************************************************)
(* The state machine.                                                      *)
(***************************************************************************)
\* The backing file found by the first start: absent, or holding something
\* that is not an array.  A file holding an empty array or broken text is what
\* the first start itself leaves behind (the write that creates the file
\* succeeds, or breaks off); a file holding records, or left broken by a
\* save, is one that an earlier run of the server wrote, and is found by
\* Restart.
InitialFiles == { AbsentFile, NonArrayFile }

\* The variables of a process: the module-level `archives` of server.js and
\* what the model records about the process.
Process(started, cache, file, at, last) ==
    [ started |-> started, archives |-> cache, startFile |-> file, loaded |-> cache,
      created |-> <<>>, synced |-> cache, startedAt |-> at, resp |-> last ]

\* No second process.
NotStarted == Process(FALSE, <<>>, AbsentFile, 0, NoResponse)

\* The process has started: archives = loadDb().
Init ==
    /\ \E file \in InitialFiles, outcome \in WriteOutcomes :
          /\ startFile = file
          /\ archives = loadDb(file, outcome).value
          /\ disk = loadDb(file, outcome).file
    /\ loaded = archives
    /\ synced = archives
    /\ uploads = {}
    /\ uuidSeq = 0
    /\ clock = 0
    /\ startedAt = 0
    /\ runs = 1
    /\ created = <<>>
    /\ past = <<>>
    /\ inflight = {}
    /\ peer = NotStarted
    /\ resp = NoResponse

\* The effects of a request served with outcome `out` on the process and on
\* the files.
Effects(out) ==
    /\ resp' = out.resp
    /\ archives' = out.archives
    /\ disk' = out.disk
    /\ uploads' = out.uploads
    /\ uuidSeq' = out.uuidSeq
    /\ clock' = out.clock
    /\ created' = out.created
    /\ synced' = out.synced
    /\ UNCHANGED << startedAt, runs, startFile, loaded, past, peer >>

\* A request has been served with outcome `out`, from its arrival to its
\* response.
Apply(out) == Effects(out) /\ UNCHANGED inflight

\* The requests of the model, by the route they select.
RequestsTo(route) == { req \in Requests : Route(req) = route }
HealthRequests == RequestsTo("health")
UploadRequests == RequestsTo("upload")
ListRequests == RequestsTo("list")
GetRequests == RequestsTo("get")
StaticRequests == RequestsTo("static")
UnmatchedRequests == RequestsTo("fallback")

\* A request to GET /health.
Health == \E req \in HealthRequests : Apply(Serve(req, "ok"))

\* The outcomes of the write of saveDb to tell apart for a request: all of
\* them when the request gets as far as saveDb, one otherwise.
SaveOutcomes(req) ==
    IF Serve(req, "ok").archives # archives THEN WriteOutcomes ELSE {"ok"}

\* A request to POST /api/upload; `outcome` is the outcome of saveDb's write.
Upload ==
    \E req \in UploadRequests :
        /\ req.file.present => uuidSeq + 2 <= MaxUuid
        /\ \E outcome \in SaveOutcomes(req) : Apply(Serve(req, outcome))

\* A request to GET /api/files.
ListFiles == \E req \in ListRequests : Apply(Serve(req, "ok"))

\* A request to GET /api/files/:id.
GetFile == \E req \in GetRequests : Apply(Serve(req, "ok"))

\* A request to /uploads/<name>.
Static == \E req \in StaticRequests : Apply(Serve(req, "ok"))

\* A request that matches no route (an OPTIONS request among them).
Unmatched == \E req \in UnmatchedRequests : Apply(Serve(req, "ok"))

\* The process ends and is started again: archives = loadDb().
Restart ==
    /\ runs <= MaxRestarts
    /\ \E outcome \in WriteOutcomes :
          /\ archives' = loadDb(disk, outcome).value
          /\ disk' = loadDb(disk, outcome).file
    /\ startFile' = disk
    /\ loaded' = archives'
    /\ synced' = archives'
    /\ created' = <<>>
    /\ past' = past \o created
    /\ startedAt' = clock
    /\ runs' = runs + 1
    /\ resp' = NoResponse
    /\ UNCHANGED << uploads, uuidSeq, clock, inflight, peer >>

Next ==
    \/ Health
    \/ Upload
    \/ ListFiles
    \/ GetFile
    \/ Static
    \/ Unmatched
    \/ Restart

Spec == Init /\ [][Next]_vars

(***************************************************************************)
(* Uploads that overlap.  multer receives a multipart request piece by     *)
(* piece as the event loop delivers it, so several uploads can be in the   *)
(* middle of arriving at once; the route handler of each runs, in one      *)
(* piece, when its own request is complete.                                *)
(***************************************************************************)
\* The uploads tried where processes or requests overlap: a note with a
\* hash, a nameless file with a hash and a wallet address, and a note without
\* hash.
FewUploads ==
    { [BaseReq("POST", "/api/upload", NoOrigin) EXCEPT !.file = NoteFile, !.hash = Str(<<"h", "1">>)],
      [BaseReq("POST", "/api/upload", NoOrigin) EXCEPT !.file = BlankFile, !.hash = Str(<<"h", "1">>),
                                                       !.walletAddress = Str(<<"A", "b">>)],
      [BaseReq("POST", "/api/upload", NoOrigin) EXCEPT !.file = NoteFile] }

\* An upload starts to arrive: it passes cors and express.json, multer draws
\* the name of the stored file and begins to write it.
BeginUpload ==
    \E req \in FewUploads :
        /\ uuidSeq + Cardinality(inflight) + 2 <= MaxUuid
        /\ corsOrigin(req.origin) = ""
        /\ inflight' = inflight \cup
              { [req |-> req, filename |-> StorageFilename(uuidv4(uuidSeq), req.file)] }
        /\ uuidSeq' = uuidSeq + 1
        /\ uploads' = uploads \cup { StorageFilename(uuidv4(uuidSeq), req.file) }
        /\ UNCHANGED << archives, disk, clock, startedAt, runs, startFile,
                        loaded, created, past, synced, peer, resp >>

\* One of the uploads that are arriving is complete: its route handler runs.
FinishUpload ==
    \E u \in inflight :
        \E outcome \in (IF HashRejected(u.req.hash) THEN {"ok"} ELSE WriteOutcomes) :
            /\ Effects(HandleUpload(u.req, u.filename, uuidSeq, outcome))
            /\ inflight' = inflight \ {u}

NextConcurrent ==
    \/ BeginUpload
    \/ FinishUpload
    \/ ListFiles
    \/ GetFile

SpecConcurrent == Init /\ [][NextConcurrent]_vars

(***************************************************************************)
(* Two server processes on the same backing file and upload directory.     *)
(* Each runs server.js and has its own `archives`.  The variables archives,*)
(* startFile, loaded, created, synced, startedAt and resp are those of the *)
(* process that handles the next request; `peer` holds those of the other. *)
(***************************************************************************)
\* The second process starts: archives = loadDb() on the backing file as it
\* is then.
StartPeer ==
    /\ ~peer.started
    /\ \E outcome \in WriteOutcomes :
          /\ peer' = Process(TRUE, loadDb(disk, outcome).value, disk, clock, NoResponse)
          /\ disk' = loadDb(disk, outcome).file
    /\ UNCHANGED << archives, uploads, uuidSeq, clock, startedAt, runs, startFile,
                    loaded, created, past, synced, inflight, resp >>

\* The next request goes to the other process.
Switch ==
    /\ peer.started
    /\ archives' = peer.archives
    /\ startFile' = peer.startFile
    /\ loaded' = peer.loaded
    /\ created' = peer.created
    /\ synced' = peer.synced
    /\ startedAt' = peer.startedAt
    /\ resp' = peer.resp
    /\ peer' = [ started |-> TRUE, archives |-> archives, startFile |-> startFile,
                 loaded |-> loaded, created |-> created, synced |-> synced,
                 startedAt |-> startedAt, resp |-> resp ]
    /\ UNCHANGED << disk, uploads, uuidSeq, clock, runs, past, inflight >>

\* An upload that passes the handler's validation, to the process that
\* handles the next request.
UploadFew ==
    \E req \in { r \in FewUploads : ~HashRejected(r.hash) } :
        /\ uuidSeq + 2 <= MaxUuid
        /\ \E outcome \in SaveOutcomes(req) : Apply(Serve(req, outcome))

NextTwo ==
    \/ StartPeer
    \/ Switch
    \/ UploadFew
    \/ ListFiles
    \/ GetFile

SpecTwo == Init /\ [][NextTwo]_vars

(***************************************************************************)
(* Properties.                                                             *)
(***************************************************************************)
Reverse(s) == [i \in 1 .. Len(s) |-> s[Len(s) + 1 - i]]

\* The allow-list of the configuration of the model: the five default origins
\* and the one the environment adds.
ExpectedAllowList ==
    { "https://zkarchive.us", "https://app.zkarchive.us", "https://useodds.fun",
      "http://localhost:3000", "http://localhost:5173", "https://extra.example" }

\* The requests the CORS check rejects: an Origin header with a non-empty
\* value outside the allow-list.
OriginRejected(req) ==
    /\ req.origin.present
    /\ req.origin.value # ""
    /\ req.origin.value \notin ExpectedAllowList

CorsBlocked == Response(403, [error |-> "CORS blocked"])

\* The outcomes of saveDb's write that matter to a request: all of them for
\* an upload that carries a file and a hash, whatever its Origin.
OutcomesFor(req) ==
    IF Route(req) = "upload" /\ req.file.present /\ Truthy(req.hash)
    THEN WriteOutcomes ELSE {"ok"}

\* The request gets past cors, express.json and multer to its route handler.
ReachesHandler(req) ==
    /\ ~OriginRejected(req)
    /\ req.method # "OPTIONS"
    /\ ~req.jsonError
    /\ ~(req.file.present /\ req.file.size > fileSizeLimit)

\* C1: in a process started on an empty store, GET /api/files without a
\* wallet filter returns exactly the records of the uploads answered 201 so
\* far, one per upload, the record of a later upload before that of every
\* earlier one - whatever rejected uploads and queries came in between.
C1_ListNewestFirst ==
    loaded = <<>> =>
        \A req \in ListRequests :
            (ReachesHandler(req) /\ req.wallet \in {Undefined, Str(<<>>)}) =>
                LET r == Serve(req, "ok").resp
                IN  /\ r.status = 200
                    /\ Len(r.body.items) = Len(created)
                    /\ \A i, j \in DOMAIN created :
                          i < j => \E k, l \in DOMAIN r.body.items :
                                      /\ k < l
                                      /\ r.body.items[k] = created[j]
                                      /\ r.body.items[l] = created[i]

\* Two uploads were answered 201 and the list that was then asked for holds
\* two records.
C1_Witness ==
    /\ loaded = <<>>
    /\ Len(created) = 2
    /\ resp.status = 200
    /\ "items" \in DOMAIN resp.body
    /\ Len(resp.body.items) = 2

\* The upload requests the claim C2 is about: no file, or a hash that is
\* missing, empty or not a string.
C2_Invalid(req) ==
    \/ ~req.file.present
    \/ req.hash.t # "string"
    \/ req.hash.v = <<>>

\* C2: an upload request with no file, or whose hash is missing, empty or not
\* a string, leaves the in-memory sequence and the backing file as they were,
\* whatever the write of saveDb would have done, and, when it reaches the
\* upload handler, is answered with 400.
C2_InvalidUploadRejected ==
    \A req \in UploadRequests, outcome \in WriteOutcomes :
        C2_Invalid(req) =>
            LET out == Serve(req, outcome)
            IN  /\ out.archives = archives
                /\ out.disk = disk
                /\ out.created = created
                /\ ReachesHandler(req) => out.resp.status = 400

\* An upload with a file and an array for hash was answered 400 while the
\* store held a record and the backing file did not.
C2_Witness ==
    /\ resp = Response(400, [error |-> "Field 'hash' is required"])
    /\ archives # <<>>
    /\ disk.kind = "garbage"

\* C3: no two records of the in-memory sequence have the same id, records
\* read from the backing file at startup included.
C3_IdsUnique ==
    \A i, j \in DOMAIN archives : i # j => archives[i].id # archives[j].id

\* A restarted process has read a record from the backing file and has added
\* a record of its own.
C3_Witness ==
    /\ runs = 2
    /\ Len(loaded) = 1
    /\ Len(created) = 1
    /\ Len(archives) = 2

\* C4: GET /api/files/:id, when it reaches its handler, answers 200 with the
\* record of the sequence that has the requested id, equal in every field
\* to the record returned by the upload that created it, when the sequence
\* holds such a record, and 404 with an error body when it holds none.
C4_GetById ==
    \A req \in GetRequests :
        ReachesHandler(req) =>
            LET r == Serve(req, "ok").resp
            IN  IF \E i \in DOMAIN archives : archives[i].id = req.id
                THEN /\ r.status = 200
                     /\ DOMAIN r.body = {"archive"}
                     /\ r.body.archive.id = req.id
                     /\ r.body.archive \in Range(archives)
                     /\ r.body.archive \in Range(past \o created)
                ELSE /\ r.status = 404
                     /\ DOMAIN r.body = {"error"}

\* A record read from the backing file, behind a newer one in the sequence,
\* was fetched by its id.
C4_Witness ==
    /\ resp.status = 200
    /\ DOMAIN resp.body = {"archive"}
    /\ Len(archives) = 2
    /\ resp.body.archive = archives[2]
    /\ resp.body.archive \in Range(loaded)

\* Equality of two strings ignoring letter case.
EqualsIgnoringCase(a, b) ==
    /\ Len(a) = Len(b)
    /\ \A i \in 1 .. Len(a) : LowerChar(a[i]) = LowerChar(b[i])

\* C5: for every non-empty wallet query value w, in every state of the
\* record sequence, GET /api/files?wallet=w returns exactly the records whose
\* walletAddress equals w ignoring letter case, in the order of the sequence;
\* a record without a walletAddress is never among them.
C5_WalletFilter ==
    \A req \in ListRequests :
        (ReachesHandler(req) /\ req.wallet.t = "string" /\ req.wallet.v # <<>>) =>
            LET r == Serve(req, "ok").resp
                expected == SelectSeq(archives,
                                LAMBDA a : /\ a.walletAddress.t = "string"
                                           /\ EqualsIgnoringCase(a.walletAddress.v, req.wallet.v))
            IN  /\ r.status = 200
                /\ r.body = [items |-> expected]

\* C6 as stated: a request whose Origin header has a value outside the
\* allow-list is answered 403 and changes nothing; a request with no Origin
\* header, or with an Origin of the allow-list, gets the outcome of its route
\* handler.
C6_Original ==
    \A req \in Requests :
        \A outcome \in OutcomesFor(req) :
            LET out == Serve(req, outcome)
            IN  /\ (req.origin.present /\ req.origin.value \notin ExpectedAllowList) =>
                      out = Keep(CorsBlocked)
                /\ (~req.origin.present \/ req.origin.value \in ExpectedAllowList) =>
                      out = Router(req, outcome)

\* C6, amended: a request whose Origin header has a non-empty value outside
\* the allow-list is answered 403 and changes nothing, on every route; every
\* other request (no Origin header, an empty one, an Origin of the
\* allow-list) passes the CORS check, and gets the outcome of its route
\* handler unless it is an OPTIONS request, which cors answers itself with
\* 204, or carries a JSON body express.json rejects, which is answered 500.
C6_Cors ==
    \A req \in Requests :
        \A outcome \in OutcomesFor(req) :
            LET out == Serve(req, outcome)
            IN  /\ OriginRejected(req) => out = Keep(CorsBlocked)
                /\ ~OriginRejected(req) =>
                      /\ out.resp # CorsBlocked
                      /\ req.method = "OPTIONS" => out = Keep(Response(204, [empty |-> TRUE]))
                      /\ (req.method # "OPTIONS" /\ req.jsonError) =>
                            out = Keep(Response(500, [error |-> "Internal server error"]))
                      /\ (req.method # "OPTIONS" /\ ~req.jsonError) => out = Router(req, outcome)

\* A request was answered 403 by the CORS check while the store held a record.
C6_Witness ==
    /\ resp = CorsBlocked
    /\ archives # <<>>

\* C7: while the process runs, the in-memory sequence changes only by a
\* successful upload putting one new record in front: every record stays,
\* unchanged and in the same order, and the step that adds a record is
\* answered 201 with that record.
C7_RecordsImmutable ==
    [][ runs' = runs =>
          \/ archives' = archives
          \/ /\ archives' # <<>>
             /\ Tail(archives') = archives
             /\ resp'.status = 201
             /\ resp'.body.archive = Head(archives')
             /\ created' = Append(created, Head(archives')) ]_vars

\* Two uploads have succeeded on top of what was loaded, and the first
\* one's record is still there, behind the second one's.
C7_Witness ==
    /\ Len(created) = 2
    /\ archives = << created[2], created[1] >> \o loaded

HealthFields == {"status", "uptime", "timestamp"}

\* C8 as stated: every request to GET /health, in every reachable state, is
\* answered 200 with a body holding status, uptime and timestamp.
C8_Original ==
    \A req \in HealthRequests :
        LET r == Serve(req, "ok").resp
        IN  r.status = 200 /\ DOMAIN r.body = HealthFields

\* C8, amended: in every reachable state GET /health is answered 200 with a
\* body holding status, uptime and timestamp when the request passes the
\* CORS check and carries no JSON body that express.json rejects; with a
\* non-empty Origin outside the allow-list it is answered 403, and with a
\* rejected JSON body 500.
C8_Health ==
    \A req \in HealthRequests :
        LET r == Serve(req, "ok").resp
        IN  /\ (~OriginRejected(req) /\ ~req.jsonError) =>
                  /\ r.status = 200
                  /\ DOMAIN r.body = HealthFields
                  /\ r.body.status = "ok"
                  /\ r.body.uptime >= 0
            /\ OriginRejected(req) => r = CorsBlocked
            /\ (~OriginRejected(req) /\ req.jsonError) => r.status = 500

\* A health request was answered 200 with the three fields by a restarted
\* process.
C8_Witness ==
    /\ resp.status = 200
    /\ DOMAIN resp.body = HealthFields
    /\ runs = 2

\* The upload requests the claim C9 is about: a file the upload middleware
\* accepts and a non-empty string hash, past the CORS check.
C9_Valid(req) ==
    /\ req.file.present
    /\ req.file.size <= fileSizeLimit
    /\ req.hash.t = "string"
    /\ req.hash.v # <<>>
    /\ ~OriginRejected(req)
    /\ ~req.jsonError

\* C9: an upload with a file and a non-empty string hash is answered 201 with
\* a record that has the supplied hash, the supplied wallet address (null
\* when none or an empty one was supplied), the name under which the file
\* was stored and the file's size; in the state right after a 201 that record
\* is the first one GET /api/files returns and the one GET /api/files/:id
\* returns for its id.
C9_UploadCreatesRecord ==
    /\ \A req \in UploadRequests, outcome \in WriteOutcomes :
          C9_Valid(req) =>
              LET out == Serve(req, outcome)
                  a == out.resp.body.archive
              IN  /\ out.resp.status = 201
                  /\ DOMAIN out.resp.body = {"success", "archive"}
                  /\ a.hash = req.hash
                  /\ a.walletAddress = IF req.walletAddress \in {Undefined, Str(<<>>)}
                                       THEN Null ELSE req.walletAddress
                  /\ out.uploads \ uploads = {a.storagePath}
                  /\ a.size = req.file.size
    /\ resp.status = 201 =>
          /\ \A req \in ListRequests :
                (~OriginRejected(req) /\ ~req.jsonError /\ req.wallet = Undefined) =>
                    /\ Serve(req, "ok").resp.status = 200
                    /\ Head(Serve(req, "ok").resp.body.items) = resp.body.archive
          /\ \A req \in GetRequests :
                (~OriginRejected(req) /\ ~req.jsonError /\ req.id = resp.body.archive.id) =>
                    Serve(req, "ok").resp = Response(200, [archive |-> resp.body.archive])

\* The upload of the 10-byte note.txt with a hash and no wallet address was
\* answered 201 with a record of size 10 and a null walletAddress, in front
\* of an older record.
C9_Witness ==
    /\ resp.status = 201
    /\ resp.body.archive.name = "note.txt"
    /\ resp.body.archive.size = 10
    /\ resp.body.archive.walletAddress = Null
    /\ resp.body.archive.storagePath \in uploads
    /\ Len(archives) = 2
    /\ archives[1] = resp.body.archive

ErrorMessages == { CorsError, "File too large", "Unexpected token in JSON" }
Statuses == { 200, 201, 204, 400, 403, 404, 500 }

\* The error handler answers 403 to the CORS error and 500 to any other; an
\* upload over the size limit is answered 500 and adds no record; every
\* request is answered.
C10_Errors ==
    /\ \A m \in ErrorMessages :
          ErrorHandler(m).status = IF m = "Not allowed by CORS" THEN 403 ELSE 500
    /\ \A req \in UploadRequests, outcome \in WriteOutcomes :
          (req.file.present /\ req.file.size > fileSizeLimit /\ ~OriginRejected(req)) =>
              /\ Serve(req, outcome).resp.status = 500
              /\ Serve(req, outcome).archives = archives
              /\ Serve(req, outcome).disk = disk
    /\ \A req \in Requests : Serve(req, "ok").resp.status \in Statuses

\* C10 as stated: every request whose method and path match no route is
\* answered 404 {error: "Not found"}, and the rest of the claim.
C10_Original ==
    /\ \A req \in UnmatchedRequests :
          Serve(req, "ok").resp = Response(404, [error |-> "Not found"])
    /\ C10_Errors

\* C10, amended: a request whose method and path match no route is answered
\* 404 {error: "Not found"} when it passes the CORS check, is not an OPTIONS
\* request and carries no JSON body that express.json rejects; it is answered
\* 403 when its Origin is rejected, 204 by cors when it is an OPTIONS request
\* and 500 when its body is rejected.  A request under /uploads for which no
\* file is served gets the same 404.  The rest of the claim is as stated.
C10_Unmatched ==
    /\ \A req \in UnmatchedRequests :
          LET r == Serve(req, "ok").resp
          IN  /\ OriginRejected(req) => r = CorsBlocked
              /\ (~OriginRejected(req) /\ req.method = "OPTIONS") => r.status = 204
              /\ (~OriginRejected(req) /\ req.method # "OPTIONS" /\ req.jsonError) => r.status = 500
              /\ (~OriginRejected(req) /\ req.method # "OPTIONS" /\ ~req.jsonError) =>
                    r = Response(404, [error |-> "Not found"])
    /\ \A req \in StaticRequests :
          (~OriginRejected(req) /\ ~req.jsonError /\ ~(req.method = "GET" /\ req.name \in uploads)) =>
              Serve(req, "ok").resp = Response(404, [error |-> "Not found"])
    /\ C10_Errors

\* A request that matches no route was answered 404 {error: "Not found"}
\* while the upload directory held a file.
C10_Witness ==
    /\ resp = Response(404, [error |-> "Not found"])
    /\ uploads # {}

\* C11: GET /api/files and GET /api/files/:id are read-only.  For every
\* request to them (any wallet filter, any id, any Origin) and every
\* reachable state, the in-memory sequence, the backing file and everything
\* else a request can change are after the request as before it; and the
\* answer is computed from the in-memory sequence alone, also when the
\* backing file holds something else: the unfiltered list is the in-memory
\* sequence, and an id is found exactly when the in-memory sequence has it.
C11_QueriesReadOnly ==
    /\ \A req \in ListRequests \cup GetRequests :
          LET out == Serve(req, "ok")
          IN  /\ out.archives = archives
              /\ out.disk = disk
              /\ out = Keep(out.resp)
    /\ \A req \in ListRequests :
          (ReachesHandler(req) /\ ~Truthy(req.wallet)) =>
              Serve(req, "ok").resp = Response(200, [items |-> archives])
    /\ \A req \in GetRequests :
          ReachesHandler(req) =>
              (Serve(req, "ok").resp.status = 200
                  <=> \E i \in DOMAIN archives : archives[i].id = req.id)

\* The list was answered with the two records of the in-memory sequence
\* while the backing file held no record at all.
C11_Witness ==
    /\ Len(archives) = 2
    /\ resp = Response(200, [items |-> archives])
    /\ loadDb(disk, "ok").value = <<>>

\* JSON.parse of the text of a backing file that holds an array.
ParsedFile(file) == [i \in DOMAIN file.data |-> ArchiveOfJson(file.data[i])]

\* s is the end of t: t with some of its first elements left out.
IsSuffix(s, t) ==
    /\ Len(s) <= Len(t)
    /\ s = SubSeq(t, Len(t) - Len(s) + 1, Len(t))

\* C12 as stated: in every reachable state the sequence the query handlers
\* answer from is the sequence last successfully loaded from or saved to the
\* backing file.
C12_Original ==
    /\ archives = synced
    /\ \A req \in ListRequests :
          (ReachesHandler(req) /\ ~Truthy(req.wallet)) =>
              Serve(req, "ok").resp = Response(200, [items |-> synced])

\* C12, amended: the query handlers answer from the in-memory sequence,
\* which in every reachable state is the sequence loadDb returned at startup
\* with the record of every upload answered 201 since in front of it, newest
\* first, whether or not its save succeeded.  The sequence last loaded or
\* successfully saved is the end of it: what is in front are the records of
\* the latest uploads, whose saves failed.  The backing file, while it holds
\* an array, holds the sequence last loaded or successfully saved.
C12_CacheAheadOfStore ==
    /\ archives = Reverse(created) \o loaded
    /\ IsSuffix(synced, archives)
    /\ IsSuffix(loaded, synced)
    /\ disk.kind = "array" => ParsedFile(disk) = synced
    /\ \A req \in ListRequests :
          (ReachesHandler(req) /\ ~Truthy(req.wallet)) =>
              Serve(req, "ok").resp = Response(200, [items |-> archives])

\* After an upload that was saved and a later one whose save failed, the list
\* was answered with both records while the sequence last saved holds one.
C12_Witness ==
    /\ Len(archives) = 2
    /\ synced = Tail(archives)
    /\ resp = Response(200, [items |-> archives])

\* The records a backing file holds: none when it does not hold an array.
RecordsOnDisk(file) == IF file.kind = "array" THEN Range(ParsedFile(file)) ELSE {}

\* The backing file holds exactly the sequence seq.
DiskHolds(file, seq) == file.kind = "array" /\ ParsedFile(file) = seq

\* C13: when the write of saveDb fails during an upload, the upload is still
\* answered 201, its record is put in front of the in-memory sequence and the
\* backing file is left without it.  While the process holds records that no
\* save has written, the backing file differs from the in-memory sequence,
\* and the list and get-by-id handlers return those records.  The next upload
\* whose save succeeds leaves the backing file holding the whole in-memory
\* sequence, the records whose own save had failed included.
C13_FailedSaveSwallowed ==
    /\ \A req \in UploadRequests, outcome \in WriteOutcomes \ {"ok"} :
          C9_Valid(req) =>
              LET out == Serve(req, outcome)
                  a == out.resp.body.archive
              IN  /\ out.resp = Response(201, [success |-> TRUE, archive |-> a])
                  /\ out.archives = <<a>> \o archives
                  /\ a \notin RecordsOnDisk(out.disk)
                  /\ ~DiskHolds(out.disk, out.archives)
                  /\ out.synced = synced
    /\ archives # synced =>
          /\ ~DiskHolds(disk, archives)
          /\ \A req \in ListRequests :
                (ReachesHandler(req) /\ ~Truthy(req.wallet)) =>
                    Serve(req, "ok").resp = Response(200, [items |-> archives])
          /\ \A i \in 1 .. (Len(archives) - Len(synced)) :
                /\ archives[i] \notin RecordsOnDisk(disk)
                /\ \A req \in GetRequests :
                      (ReachesHandler(req) /\ req.id = archives[i].id) =>
                          Serve(req, "ok").resp = Response(200, [archive |-> archives[i]])
    /\ \A req \in UploadRequests :
          C9_Valid(req) =>
              LET out == Serve(req, "ok")
              IN  /\ Tail(out.archives) = archives
                  /\ DiskHolds(out.disk, out.archives)
                  /\ out.synced = out.archives

\* An upload was answered 201 although its save failed: its record is the
\* first of the in-memory sequence, and the backing file still holds only
\* the older record.
C13_Witness ==
    /\ resp.status = 201
    /\ Len(archives) = 2
    /\ archives[1] = resp.body.archive
    /\ synced = Tail(archives)
    /\ DiskHolds(disk, Tail(archives))

\* The backing file cannot be used: its text does not parse, or parses to
\* something that is not an array.
Unreadable(file) == file.kind \in {"garbage", "nonarray"}

\* What loadDb does with a file that exists, whatever a write would do.
C14_ExistingFile ==
    /\ \A file \in {GarbageFile, NonArrayFile}, outcome \in WriteOutcomes :
          loadDb(file, outcome) = [value |-> <<>>, file |-> file]
    /\ \A outcome \in WriteOutcomes :
          disk.kind = "array" =>
              /\ loadDb(disk, outcome).file = disk
              /\ Len(loadDb(disk, outcome).value) = Len(disk.data)
              /\ \A i \in DOMAIN disk.data :
                    JsonOfArchive(loadDb(disk, outcome).value[i]) = disk.data[i]
    /\ loaded = IF startFile.kind = "array" THEN ParsedFile(startFile) ELSE <<>>

\* C14 as stated: loadDb on an absent file returns an empty sequence and
\* creates the file holding an empty sequence; on an unusable file it returns
\* an empty sequence and leaves the file; otherwise it returns the records in
\* file order.  After a load from an unusable file, the first upload that is
\* answered 201 leaves the backing file holding only its record.
C14_Original ==
    /\ \A outcome \in WriteOutcomes :
          loadDb(AbsentFile, outcome) = [value |-> <<>>, file |-> ArrayFile(<<>>)]
    /\ C14_ExistingFile
    /\ (Unreadable(startFile) /\ created = <<>>) =>
          \A req \in UploadRequests, outcome \in WriteOutcomes :
              C9_Valid(req) =>
                  DiskHolds(Serve(req, outcome).disk, <<Serve(req, outcome).resp.body.archive>>)

\* C14, amended: loadDb on an absent file returns an empty sequence, and
\* creates the file holding an empty sequence when its write succeeds (when
\* the write fails the file stays absent or is left unusable); on an unusable
\* file it returns an empty sequence and leaves the file as it is; otherwise
\* it returns the records in file order.  After a load from an unusable file,
\* the file stays unusable until an upload's save succeeds, and that save
\* leaves it holding exactly the records uploaded since the load: only the
\* new record when the upload is the first one answered 201 since the load.
C14_Load ==
    /\ \A outcome \in WriteOutcomes :
          /\ loadDb(AbsentFile, outcome).value = <<>>
          /\ loadDb(AbsentFile, outcome).file =
                CASE outcome = "ok" -> ArrayFile(<<>>)
                  [] outcome = "denied" -> AbsentFile
                  [] OTHER -> GarbageFile
    /\ C14_ExistingFile
    /\ Unreadable(startFile) =>
          /\ synced = <<>> => Unreadable(disk)
          /\ \A req \in UploadRequests :
                C9_Valid(req) =>
                    LET out == Serve(req, "ok")
                        a == out.resp.body.archive
                    IN  /\ DiskHolds(out.disk, <<a>> \o Reverse(created))
                        /\ created = <<>> => DiskHolds(out.disk, <<a>>)
          /\ \A req \in UploadRequests, outcome \in WriteOutcomes \ {"ok"} :
                (C9_Valid(req) /\ synced = <<>>) => Unreadable(Serve(req, outcome).disk)

\* A process that found an unusable backing file has answered 201 to its
\* first upload, and the backing file now holds that record alone.
C14_Witness ==
    /\ Unreadable(startFile)
    /\ resp.status = 201
    /\ created = << resp.body.archive >>
    /\ DiskHolds(disk, created)

\* The unfiltered list a process would return: the answer to
\* GET /api/files with no Origin header and no wallet parameter.
UnfilteredList == ListHandler(BaseReq("GET", "/api/files", NoOrigin))

\* C15: a step in which an upload is answered 201 and its save succeeds
\* leaves the backing file holding the text of the whole in-memory sequence,
\* element for element and in the same order; a step that restarts the
\* process while the backing file holds the in-memory sequence, as it does
\* right after such an upload, leaves the in-memory sequence and the
\* backing file as they were, and the unfiltered list answers the same after
\* the restart as before it.
C15_SaveLoadRoundTrip ==
    [][ /\ (runs' = runs /\ resp'.status = 201 /\ synced' = archives') =>
              /\ disk' = ArrayFile(JsonStringify(archives'))
              /\ Len(disk'.data) = Len(archives')
              /\ \A i \in DOMAIN archives' : ArchiveOfJson(disk'.data[i]) = archives'[i]
        /\ (resp.status = 201 /\ synced = archives) => DiskHolds(disk, archives)
        /\ (runs' # runs /\ DiskHolds(disk, archives)) =>
              /\ archives' = archives
              /\ disk' = disk
              /\ UnfilteredList' = UnfilteredList ]_vars

\* A process was restarted after two uploads, both saved: it holds the two
\* records, the later one first, and has answered the list with them.
C15_Witness ==
    /\ runs = 2
    /\ Len(past) = 2
    /\ created = <<>>
    /\ archives = Reverse(past)
    /\ resp = Response(200, [items |-> archives])

\* C16: with uploads arriving overlapped in any order, every upload
\* answered 201 has its record in the in-memory sequence exactly once, and
\* the records stand in the order in which the handlers ran, latest first:
\* the sequence is what was loaded with the records of the 201 responses in
\* front of it, in reverse order of the responses.  No two records share an
\* id or a stored file; an upload that is still arriving has no record; and
\* whichever arriving upload completes next, its handler answers 201 and
\* puts its record in front of the unchanged sequence, or answers 400 and
\* changes nothing.
C16_UploadsSerialized ==
    /\ archives = Reverse(created) \o loaded
    /\ \A i, j \in DOMAIN archives :
          i # j => /\ archives[i].id # archives[j].id
                   /\ archives[i].storagePath # archives[j].storagePath
    /\ \A u \in inflight :
          /\ u.filename \in uploads
          /\ \A i \in DOMAIN archives : archives[i].storagePath # u.filename
    /\ \A u \in inflight, outcome \in WriteOutcomes :
          LET out == HandleUpload(u.req, u.filename, uuidSeq, outcome)
          IN  IF HashRejected(u.req.hash)
              THEN /\ out.resp.status = 400
                   /\ out.archives = archives
                   /\ out.created = created
              ELSE /\ out.resp.status = 201
                   /\ out.resp.body.archive.storagePath = u.filename
                   /\ out.archives = <<out.resp.body.archive>> \o archives
                   /\ out.created = Append(created, out.resp.body.archive)

\* Two uploads overlapped, and the one whose file began to arrive first was
\* completed last: its record stands first.
C16_Witness ==
    /\ inflight = {}
    /\ Len(created) = 2
    /\ archives = << created[2], created[1] >>
    /\ created[2].storagePath.uuid < created[1].storagePath.uuid

\* The answer of the process that handles the next request to
\* GET /api/files/:id for the id of record a.
GetById(a) ==
    GetHandler([BaseReq("GET", "/api/files/:id", NoOrigin) EXCEPT !.id = a.id])

\* C17: with two processes on one backing file nothing merges their
\* updates.  Each process's in-memory sequence is what it loaded at its
\* startup with its own uploads in front, so a record the other process
\* created later is in neither its list nor its get-by-id; and the backing
\* file, while it holds an array, holds the sequence one of the two
\* processes last loaded or saved, whole: a successful save by one process
\* removes from the file every record only the other one had.
C17_NoMerge ==
    /\ archives = Reverse(created) \o loaded
    /\ peer.started => peer.archives = Reverse(peer.created) \o peer.loaded
    /\ disk.kind = "array" =>
          \/ ParsedFile(disk) = synced
          \/ peer.started /\ ParsedFile(disk) = peer.synced
    /\ \A a \in Range(peer.created) :
          a \notin Range(loaded) =>
              /\ a \notin Range(UnfilteredList.body.items)
              /\ GetById(a) = Response(404, [error |-> "Archive not found"])

\* A lost update: the other process has answered 201 to an upload and saved
\* its record; this process, which had started before, has since saved an
\* upload of its own, so that the backing file holds this process's records
\* and not the other's; and this process has just answered 404 to a request
\* for the other's record.
C17_Witness ==
    /\ peer.started
    /\ created # <<>>
    /\ synced = archives
    /\ DiskHolds(disk, archives)
    /\ \E a \in Range(peer.created) :
          /\ a \in Range(peer.synced)
          /\ a \notin RecordsOnDisk(disk)
          /\ a \notin Range(UnfilteredList.body.items)
          /\ GetById(a).status = 404
    /\ resp = Response(404, [error |-> "Archive not found"])

=============================================================================
